---------------------------- MODULE Spec2Model ----------------------------
(***************************************************************************)
(* A model of nfrr::config::BasicConfigValue<Alloc>: the seven-kind tagged *)
(* value, its mutators, the converting accessors and the object navigation *)
(* (operator[], at, find, contains), the exact accessors (as_*, get_ref),  *)
(* coerce with its std::from_chars parsing, copies and moves between two   *)
(* values, the allocation context each value is bound to, and references   *)
(* into a tree that the caller keeps across later calls.                   *)
(*                                                                         *)
(* Numbers.  std::int64_t and double do not fit TLC's 32-bit integers, so  *)
(* an integer is kept exactly as three limbs <<a, b, c>> standing for      *)
(* a * 2^44 + b * 2^22 + c with 0 <= b, c < 2^22 and a signed (floor       *)
(* form), which makes the order lexicographic.  A finite double is kept    *)
(* exactly as a count of halves in the same form (d = h / 2): every whole  *)
(* double and every double with fraction .5 the model uses is of that      *)
(* shape.  Conversions round and wrap as the C++ conversions do.           *)
(***************************************************************************)
EXTENDS Integers, Sequences, FiniteSets, TLC

VARIABLES root, cur, pre, ret, other, held

vars == <<root, cur, pre, ret, other, held>>

-----------------------------------------------------------------------------
(* Exact integers in limb form *)

Base == 2^22

BigNorm(a, b, c) ==
    LET c1 == c % Base
        b0 == b + ((c - c1) \div Base)
        b1 == b0 % Base
    IN  <<a + ((b0 - b1) \div Base), b1, c1>>

BigOfInt(n) == BigNorm(0, 0, n)

BigAdd(x, y) == BigNorm(x[1] + y[1], x[2] + y[2], x[3] + y[3])

BigNeg(x) == BigNorm(-x[1], -x[2], -x[3])

BigSub(x, y) == BigAdd(x, BigNeg(y))

BigLT(x, y) ==
    \/ x[1] < y[1]
    \/ x[1] = y[1] /\ x[2] < y[2]
    \/ x[1] = y[1] /\ x[2] = y[2] /\ x[3] < y[3]

BigGT(x, y) == BigLT(y, x)

BigZero == <<0, 0, 0>>

BigOne == <<0, 0, 1>>

Pow2(k) ==
    IF k < 22 THEN <<0, 0, 2^k>>
    ELSE IF k < 44 THEN <<0, 2^(k - 22), 0>>
    ELSE <<2^(k - 44), 0, 0>>

\* x / 2 rounded down
BigHalf(x) ==
    <<x[1] \div 2,
      (x[2] \div 2) + (x[1] % 2) * (Base \div 2),
      (x[3] \div 2) + (x[2] % 2) * (Base \div 2)>>

BigIsOdd(x) == x[3] % 2 = 1

\* x mod 2^w for the widths of the integral types
BigLowBits(x, w) ==
    IF w = 8 \/ w = 16 THEN <<0, 0, x[3] % (2^w)>>
    ELSE IF w = 32 THEN <<0, x[2] % (2^10), x[3]>>
    ELSE <<x[1] % (2^20), x[2], x[3]>>

RECURSIVE BitLen(_)
BitLen(n) == IF n = 0 THEN 0 ELSE 1 + BitLen(n \div 2)

-----------------------------------------------------------------------------
(* The arithmetic target types T of get<T>, try_get<T>, ... *)

SignedTargets == {"int8_t", "int16_t", "int32_t", "int64_t"}

UnsignedTargets == {"uint8_t", "uint16_t", "uint32_t", "uint64_t"}

IntegralTargets == SignedTargets \cup UnsignedTargets

FloatingTargets == {"double"}

ArithmeticTargets == {"bool"} \cup IntegralTargets \cup FloatingTargets

Bits(T) ==
    CASE T \in {"int8_t", "uint8_t"} -> 8
      [] T \in {"int16_t", "uint16_t"} -> 16
      [] T \in {"int32_t", "uint32_t"} -> 32
      [] T \in {"int64_t", "uint64_t"} -> 64

\* std::numeric_limits<T>::min() and ::max(); for bool they are false and true
LimitsMin(T) ==
    IF T \in SignedTargets THEN BigNeg(Pow2(Bits(T) - 1)) ELSE BigZero

LimitsMax(T) ==
    IF T = "bool" THEN BigOne
    ELSE IF T \in SignedTargets THEN BigSub(Pow2(Bits(T) - 1), BigOne)
    ELSE BigSub(Pow2(Bits(T)), BigOne)

\* static_cast<T>(x) of an integer to an integral T: modulo 2^Bits(T)
StaticCastInt(T, x) ==
    LET low == BigLowBits(x, Bits(T))
    IN  IF T \in SignedTargets /\ ~BigLT(low, Pow2(Bits(T) - 1))
        THEN BigSub(low, Pow2(Bits(T)))
        ELSE low

-----------------------------------------------------------------------------
(* IEEE-754 doubles: [cls, h], the value of a finite one being h / 2 *)

Fin(h) == [cls |-> "fin", h |-> h]

NaN == [cls |-> "nan", h |-> BigZero]

PosInf == [cls |-> "pinf", h |-> BigZero]

NegInf == [cls |-> "ninf", h |-> BigZero]

isfinite(d) == d.cls = "fin"

\* a whole number n as a double, when n has at most 53 significant bits
Whole(n) == Fin(BigAdd(n, n))

\* round a magnitude n >= 0 to 53 significant bits, ties to even
Round53(n) ==
    IF BigLT(n, Pow2(53)) THEN n
    ELSE LET k == 44 + BitLen(n[1]) - 53
             m == 2^k
             r == n[3] % m
             q == (n[3] - r) \div m
             up == (2 * r > m) \/ (2 * r = m /\ q % 2 = 1)
         IN  BigNorm(n[1], n[2], n[3] - r + (IF up THEN m ELSE 0))

\* static_cast<double>(n) of an integer
StaticCastDouble(n) ==
    IF BigLT(n, BigZero) THEN Whole(BigNeg(Round53(BigNeg(n))))
    ELSE Whole(Round53(n))

\* std::trunc: a NaN or an infinity is returned as it is
trunc(d) ==
    IF ~BigIsOdd(d.h) THEN d
    ELSE IF BigLT(d.h, BigZero) THEN Fin(BigAdd(d.h, BigOne))
    ELSE Fin(BigSub(d.h, BigOne))

\* operator!= on doubles: a NaN differs from everything, itself included
DoubleNE(x, y) == x.cls = "nan" \/ y.cls = "nan" \/ x # y

\* operator< on finite doubles
DoubleLT(x, y) == BigLT(x.h, y.h)

\* the integer a whole finite double stands for
WholePart(d) == BigHalf(d.h)

-----------------------------------------------------------------------------
(* Payloads.  TLC cannot compare a boolean with a tuple, so every payload   *)
(* (a variant alternative, an argument, a result) is a record with one     *)
(* field per C++ type, the fields of the other types at their defaults.    *)

NoVal ==
    [b |-> FALSE, i |-> BigZero, d |-> Fin(BigZero),
     s |-> <<>>, a |-> <<>>, o |-> <<>>]

ValB(x) == [NoVal EXCEPT !.b = x]

ValI(x) == [NoVal EXCEPT !.i = x]

ValD(x) == [NoVal EXCEPT !.d = x]

ValS(x) == [NoVal EXCEPT !.s = x]

ValA(x) == [NoVal EXCEPT !.a = x]

ValO(x) == [NoVal EXCEPT !.o = x]

-----------------------------------------------------------------------------
(* std::expected<T, ConfigError>.  A conversion yields the SET of results   *)
(* the build can produce: one result, except where the C++ is undefined.   *)

Ok(v) == [has_value |-> TRUE, value |-> v, error |-> "None"]

Unexpected(e) == [has_value |-> FALSE, value |-> NoVal, error |-> e]

\* a double-to-integer static_cast whose operand is outside T: undefined
\* behaviour, the converted value is whatever the hardware or the
\* optimiser leaves there
UndefinedCast(T) ==
    {Ok(ValI(LimitsMin(T))), Ok(ValI(BigZero)), Ok(ValI(LimitsMax(T)))}

\* faulty variant: the upper limit itself is rejected
numeric_from_int64_ge(T, value) ==
    IF T = "bool" THEN {Ok(ValB(value # BigZero))}
    ELSE IF T \in FloatingTargets THEN {Ok(ValD(StaticCastDouble(value)))}
    ELSE IF \/ BigLT(value, LimitsMin(T))
            \/ ~BigLT(value, LimitsMax(T))
    THEN {Unexpected("OutOfRange")}
    ELSE {Ok(ValI(StaticCastInt(T, value)))}

numeric_from_int64(T, value) ==
    IF T = "bool" THEN {Ok(ValB(value # BigZero))}
    ELSE IF T \in FloatingTargets THEN {Ok(ValD(StaticCastDouble(value)))}
    ELSE IF T \in SignedTargets THEN
        IF \/ BigLT(value, StaticCastInt("int64_t", LimitsMin(T)))
           \/ BigGT(value, StaticCastInt("int64_t", LimitsMax(T)))
        THEN {Unexpected("OutOfRange")}
        ELSE {Ok(ValI(StaticCastInt(T, value)))}
    ELSE
        IF \/ BigLT(value, BigZero)
           \/ BigGT(StaticCastInt("uint64_t", value),
                    StaticCastInt("uint64_t", LimitsMax(T)))
        THEN {Unexpected("OutOfRange")}
        ELSE {Ok(ValI(StaticCastInt(T, value)))}

\* static_cast<T>(truncated) for a whole finite double and a non-floating T
StaticCastFromDouble(T, truncated) ==
    IF T = "bool" THEN {Ok(ValB(truncated.h # BigZero))}
    ELSE IF \/ BigLT(WholePart(truncated), LimitsMin(T))
            \/ BigGT(WholePart(truncated), LimitsMax(T))
    THEN UndefinedCast(T)
    ELSE {Ok(ValI(WholePart(truncated)))}

\* faulty variant: the range is checked before the fraction
numeric_from_double_range_first(T, value) ==
    IF ~isfinite(value) THEN {Unexpected("OutOfRange")}
    ELSE IF T \in FloatingTargets THEN {Ok(ValD(value))}
    ELSE
        LET truncated == trunc(value)
        IN  IF \/ DoubleLT(truncated, StaticCastDouble(LimitsMin(T)))
               \/ DoubleLT(StaticCastDouble(LimitsMax(T)), truncated)
            THEN {Unexpected("OutOfRange")}
            ELSE IF DoubleNE(truncated, value) THEN {Unexpected("FractionalLoss")}
            ELSE StaticCastFromDouble(T, truncated)

numeric_from_double(T, value) ==
    IF ~isfinite(value) THEN {Unexpected("OutOfRange")}
    ELSE IF T \in FloatingTargets THEN
        \* every finite double lies within [lowest(), max()] of double
        {Ok(ValD(value))}
    ELSE
        LET truncated == trunc(value)
        IN  IF DoubleNE(truncated, value) THEN {Unexpected("FractionalLoss")}
            ELSE IF \/ DoubleLT(truncated, StaticCastDouble(LimitsMin(T)))
                    \/ DoubleLT(StaticCastDouble(LimitsMax(T)), truncated)
            THEN {Unexpected("OutOfRange")}
            ELSE StaticCastFromDouble(T, truncated)

\* faulty variant: no branch for the floating targets
numeric_from_bool_integral(T, value) ==
    IF T = "bool" THEN {Ok(ValB(value))}
    ELSE IF T \in IntegralTargets
    THEN {Ok(ValI(StaticCastInt(T, IF value THEN BigOne ELSE BigZero)))}
    ELSE {Unexpected("TypeMismatch")}

numeric_from_bool(T, value) ==
    IF T = "bool" THEN {Ok(ValB(value))}
    ELSE IF T \in IntegralTargets
    THEN {Ok(ValI(StaticCastInt(T, IF value THEN BigOne ELSE BigZero)))}
    ELSE {Ok(ValD(StaticCastDouble(IF value THEN BigOne ELSE BigZero)))}

-----------------------------------------------------------------------------
(* Text.  A string is a sequence of one-character strings.  std::from_chars *)
(* is modelled on the lower-case spellings, on literals of at most twenty  *)
(* digits, and on values that are multiples of one half below 2^75, the    *)
(* numbers the doubles above can hold.                                     *)

DecimalDigits == <<"0", "1", "2", "3", "4", "5", "6", "7", "8", "9">>

IsDigit(c) == \E i \in 1..10 : DecimalDigits[i] = c

DigitValue(c) == (CHOOSE i \in 1..10 : DecimalDigits[i] = c) - 1

\* the position after the run of digits of s that starts at position i
RECURSIVE DigitsEnd(_, _)
DigitsEnd(s, i) ==
    IF i <= Len(s) /\ IsDigit(s[i]) THEN DigitsEnd(s, i + 1) ELSE i

BigTimes10(x) == BigNorm(10 * x[1], 10 * x[2], 10 * x[3])

\* x * 10^k
RECURSIVE BigTimesPow10(_, _)
BigTimesPow10(x, k) == IF k = 0 THEN x ELSE BigTimesPow10(BigTimes10(x), k - 1)

\* x / 10 rounded down, for x >= 0
BigDiv10(x) ==
    LET r1 == x[1] % 10
        b == r1 * Base + x[2]
        r2 == b % 10
        c == r2 * Base + x[3]
    IN  <<x[1] \div 10, b \div 10, c \div 10>>

\* the number the digits s[i .. j-1] spell after the digits counted in acc;
\* it stops growing once it is above every 64-bit value
RECURSIVE DigitsValue(_, _, _, _)
DigitsValue(s, i, j, acc) ==
    IF i >= j THEN acc
    ELSE DigitsValue(s, i + 1, j,
             IF BigGT(acc, Pow2(65)) THEN acc
             ELSE BigAdd(BigTimes10(acc), BigOfInt(DigitValue(s[i]))))

\* std::from_chars_result, ptr as the number of characters consumed, with
\* the variable the number is written to
FromCharsResult(ptr, ec, value) == [ptr |-> ptr, ec |-> ec, value |-> value]

\* std::from_chars(first, last, T& result, 10) for an integral T: a minus
\* sign for a signed T only, then digits
from_chars_integer(T, s) ==
    LET neg == T \in SignedTargets /\ Len(s) >= 1 /\ s[1] = "-"
        i == IF neg THEN 2 ELSE 1
        j == DigitsEnd(s, i)
        m == DigitsValue(s, i, j, BigZero)
        n == IF neg THEN BigNeg(m) ELSE m
    IN  IF j = i THEN FromCharsResult(0, "invalid_argument", ValI(BigZero))
        ELSE IF BigLT(n, LimitsMin(T)) \/ BigGT(n, LimitsMax(T))
        THEN FromCharsResult(j - 1, "result_out_of_range", ValI(BigZero))
        ELSE FromCharsResult(j - 1, "", ValI(n))

HasPrefix(s, i, w) ==
    /\ i + Len(w) - 1 <= Len(s)
    /\ SubSeq(s, i, i + Len(w) - 1) = w

\* a small exponent as an integer, a large one as a number beyond any range
ExponentValue(x) == IF x[1] = 0 /\ x[2] = 0 /\ x[3] < 100000 THEN x[3] ELSE 100000

\* the number of decimal digits of x > 0
RECURSIVE DecimalLength(_)
DecimalLength(x) == IF x = BigZero THEN 0 ELSE 1 + DecimalLength(BigDiv10(x))

\* 2 * m / 10^k rounded down: the halves in m * 10^(-k)
RECURSIVE HalvesOver(_, _)
HalvesOver(m2, k) == IF k = 0 THEN m2 ELSE HalvesOver(BigDiv10(m2), k - 1)

\* the double m * 10^e10 for a mantissa m >= 0
DecimalToDouble(m, e10) ==
    IF e10 >= 0 THEN Whole(Round53(BigTimesPow10(m, e10)))
    ELSE Fin(HalvesOver(BigAdd(m, m), -e10))

\* std::from_chars(first, last, double& result), chars_format::general:
\* an optional minus sign, then inf, infinity, nan, or digits with an
\* optional point and an optional exponent that has digits
from_chars_double(s) ==
    LET neg == Len(s) >= 1 /\ s[1] = "-"
        i == IF neg THEN 2 ELSE 1
        j1 == DigitsEnd(s, i)
        point == j1 <= Len(s) /\ s[j1] = "."
        j2 == IF point THEN DigitsEnd(s, j1 + 1) ELSE j1
        ndigits == (j1 - i) + (IF point THEN j2 - (j1 + 1) ELSE 0)
        fraction == IF point THEN j2 - (j1 + 1) ELSE 0
        m == IF point THEN DigitsValue(s, j1 + 1, j2, DigitsValue(s, i, j1, BigZero))
             ELSE DigitsValue(s, i, j1, BigZero)
        e == j2 <= Len(s) /\ s[j2] \in {"e", "E"}
        esign == e /\ j2 + 1 <= Len(s) /\ s[j2 + 1] \in {"+", "-"}
        q == IF esign THEN j2 + 2 ELSE j2 + 1
        qe == IF e THEN DigitsEnd(s, q) ELSE q
        exponent == e /\ qe > q
        x == IF ~exponent THEN 0
             ELSE IF esign /\ s[j2 + 1] = "-"
             THEN -ExponentValue(DigitsValue(s, q, qe, BigZero))
             ELSE ExponentValue(DigitsValue(s, q, qe, BigZero))
        end == IF exponent THEN qe ELSE j2
        e10 == x - fraction
        magnitude == e10 + DecimalLength(m)
        d == DecimalToDouble(m, e10)
    IN  IF HasPrefix(s, i, <<"i", "n", "f", "i", "n", "i", "t", "y">>)
        THEN FromCharsResult(i + 7, "", ValD(IF neg THEN NegInf ELSE PosInf))
        ELSE IF HasPrefix(s, i, <<"i", "n", "f">>)
        THEN FromCharsResult(i + 2, "", ValD(IF neg THEN NegInf ELSE PosInf))
        ELSE IF HasPrefix(s, i, <<"n", "a", "n">>)
        THEN FromCharsResult(i + 2, "", ValD(NaN))
        ELSE IF ndigits = 0
        THEN FromCharsResult(0, "invalid_argument", ValD(Fin(BigZero)))
        ELSE IF m = BigZero
        THEN FromCharsResult(end - 1, "", ValD(Fin(BigZero)))
        ELSE IF magnitude > 309 \/ magnitude < -323
        THEN FromCharsResult(end - 1, "result_out_of_range", ValD(Fin(BigZero)))
        ELSE FromCharsResult(end - 1, "",
                             ValD(IF neg THEN Fin(BigNeg(d.h)) ELSE d))

\* the target types std::from_chars has an overload for: bool has none
ParseTargets == IntegralTargets \cup FloatingTargets

\* faulty variant: characters after the number are accepted
parse_numeric_prefix(T, s) ==
    LET r == IF T \in IntegralTargets THEN from_chars_integer(T, s)
             ELSE from_chars_double(s)
    IN  IF r.ec # "" THEN {Unexpected("ParseError")}
        ELSE {Ok(r.value)}

parse_numeric(T, s) ==
    LET r == IF T \in IntegralTargets THEN from_chars_integer(T, s)
             ELSE from_chars_double(s)
    IN  IF r.ec # "" \/ r.ptr # Len(s) THEN {Unexpected("ParseError")}
        ELSE {Ok(r.value)}

-----------------------------------------------------------------------------
(* BasicConfigValue: storage_ is the variant (index, active alternative),  *)
(* allocator_ the bound allocation context.  A String is a sequence of     *)
(* characters, an Array a sequence of values, an Object a sequence of      *)
(* pairs [first |-> key, second |-> value].                                *)

\* storage_.emplace<Alternative>(...): the old alternative is destroyed
Storage(i, x) == [index |-> i, alt |-> x]

\* BasicConfigValue(const allocator_type&): a null value bound to alloc
NewValue(alloc) == [storage_ |-> Storage(0, NoVal), allocator_ |-> alloc]

kind(self) ==
    CASE self.storage_.index = 0 -> "Null"
      [] self.storage_.index = 1 -> "Boolean"
      [] self.storage_.index = 2 -> "Integer"
      [] self.storage_.index = 3 -> "Floating"
      [] self.storage_.index = 4 -> "String"
      [] self.storage_.index = 5 -> "Array"
      [] self.storage_.index = 6 -> "Object"
      [] OTHER -> "Null"

is_null(self) == kind(self) = "Null"

is_bool(self) == kind(self) = "Boolean"

is_integer(self) == kind(self) = "Integer"

\* faulty variant: an Integer counts as Floating too
is_floating_numeric(self) == kind(self) \in {"Integer", "Floating"}

is_floating(self) == kind(self) = "Floating"

is_string(self) == kind(self) = "String"

is_array(self) == kind(self) = "Array"

is_object(self) == kind(self) = "Object"

\* std::get<Alternative>(storage_) on the active alternative
as_bool(self) == self.storage_.alt.b

as_integer(self) == self.storage_.alt.i

as_floating(self) == self.storage_.alt.d

as_string(self) == self.storage_.alt.s

as_array(self) == self.storage_.alt.a

as_object(self) == self.storage_.alt.o

set_null(self) == [self EXCEPT !.storage_ = Storage(0, NoVal)]

set_bool(self, value) == [self EXCEPT !.storage_ = Storage(1, ValB(value))]

set_integer(self, value) == [self EXCEPT !.storage_ = Storage(2, ValI(value))]

set_floating(self, value) == [self EXCEPT !.storage_ = Storage(3, ValD(value))]

\* the characters s.begin() .. s.end() are copied one by one
set_string(self, s) ==
    [self EXCEPT !.storage_ = Storage(4, ValS([i \in 1..Len(s) |-> s[i]]))]

\* faulty variant: an Array is left as it is
set_array_keep(self) ==
    IF self.storage_.index = 5 THEN self
    ELSE [self EXCEPT !.storage_ = Storage(5, ValA(<<>>))]

set_array(self) == [self EXCEPT !.storage_ = Storage(5, ValA(<<>>))]

set_object(self) == [self EXCEPT !.storage_ = Storage(6, ValO(<<>>))]

\* faulty variant: the entries of an Object are not copied with it
CopyConstructed_shallow(v) ==
    [v EXCEPT !.storage_.alt.o =
        [k \in 1..Len(v.storage_.alt.o) |->
            [first |-> v.storage_.alt.o[k].first,
             second |-> NewValue(v.allocator_)]]]

\* BasicConfigValue(const BasicConfigValue&) = default and the copy
\* assignment: storage_ and allocator_ are copied member by member, a
\* String character by character, an Array or Object element by element
RECURSIVE CopyConstructed(_)
CopyConstructed(v) ==
    LET alt == v.storage_.alt
    IN  [storage_ |->
             Storage(v.storage_.index,
                     [b |-> alt.b, i |-> alt.i, d |-> alt.d,
                      s |-> [k \in 1..Len(alt.s) |-> alt.s[k]],
                      a |-> [k \in 1..Len(alt.a) |-> CopyConstructed(alt.a[k])],
                      o |-> [k \in 1..Len(alt.o) |->
                                [first |-> alt.o[k].first,
                                 second |-> CopyConstructed(alt.o[k].second)]]]),
         allocator_ |-> v.allocator_]

\* what the target of a move holds: the members of the source
MoveConstructed(v) == [storage_ |-> v.storage_, allocator_ |-> v.allocator_]

\* faulty variant: the source is left holding no alternative
MovedFrom_valueless(v) == {[v EXCEPT !.storage_.index = 7]}

\* the source after a move: the same alternative, a scalar as it was, an
\* Array or Object empty, a String in an unspecified state (empty or as
\* it was)
MovedFrom(v) ==
    {[v EXCEPT !.storage_.alt.s = s, !.storage_.alt.a = <<>>,
               !.storage_.alt.o = <<>>] : s \in {<<>>, v.storage_.alt.s}}

\* faulty variant: an integral argument passes through a 32-bit int
assign_via_int(self, x) ==
    IF x.type = "bool" THEN set_bool(self, x.val.b)
    ELSE IF x.type \in IntegralTargets
    THEN set_integer(self, StaticCastInt("int32_t", x.val.i))
    ELSE IF x.type \in FloatingTargets THEN set_floating(self, x.val.d)
    ELSE set_string(self, x.val.s)

\* The assign overload set.  An argument is [type, val]: the C++ type the
\* caller passes and its value.
assign(self, x) ==
    IF x.type = "bool" THEN set_bool(self, x.val.b)
    ELSE IF x.type \in IntegralTargets
    THEN set_integer(self, StaticCastInt("int64_t", x.val.i))
    ELSE IF x.type \in FloatingTargets THEN set_floating(self, x.val.d)
    ELSE set_string(self, x.val.s)

\* assign(const BasicConfigValue& other): storage_ = other.storage_;
\* allocator_ = other.allocator_, for a source outside the receiver
assign_copy(self, src) ==
    [storage_ |-> CopyConstructed(src).storage_, allocator_ |-> src.allocator_]

\* assign(BasicConfigValue&& other): *this = std::move(other)
assign_move(self, src) == MoveConstructed(src)

\* the capacity of a std::vector that grew to n elements from empty by
\* emplace_back or push_back, doubling when full
Capacity(n) ==
    IF n = 0 THEN 0 ELSE CHOOSE c \in {1, 2, 4, 8, 16} : c >= n /\ c < 2 * n

\* the values an Array or Object owns, in order
Children(v) ==
    IF is_array(v) THEN as_array(v)
    ELSE [k \in 1..Len(as_object(v)) |-> as_object(v)[k].second]

\* the allocation contexts
Contexts == {"A", "B"}

\* what is read from a scalar alternative after the value holding it was
\* destroyed and its storage released: what it held, or something else
ReadDestroyed(index, alt) ==
    CASE index = 0 -> {NoVal}
      [] index = 1 -> {ValB(TRUE), ValB(FALSE)}
      [] index = 2 -> {ValI(alt.i), ValI(BigZero)}
      [] index = 3 -> {ValD(alt.d), ValD(Fin(BigZero))}

\* self.assign(c) for c the k-th value self owns.  storage_ = other.storage_
\* is std::variant's copy assignment: a scalar alternative other than the
\* one held is emplaced, which destroys the payload of self, c with it,
\* and then reads c; a String, Array or Object other than the one held is
\* copied to a temporary first; the alternative held is assigned as a
\* std::vector, into new storage when it exceeds the capacity and element
\* over element otherwise, where element k is the owner of the source.
\* allocator_ = other.allocator_ then reads c, which is destroyed or
\* overwritten in every case.
assign_child(self, k) ==
    LET c == Children(self)[k]
        i == self.storage_.index
        j == c.storage_.index
        copied == CopyConstructed(c).storage_
        emptied == IF i = 5 THEN Storage(5, ValA(<<>>)) ELSE Storage(6, ValO(<<>>))
        xlen == IF j \in {5, 6} THEN Len(Children(c)) ELSE 0
        storages ==
            IF j \in 0..3 THEN {Storage(j, p) : p \in ReadDestroyed(j, c.storage_.alt)}
            ELSE IF j # i THEN {copied}
            ELSE IF xlen > Capacity(Len(Children(self))) THEN {copied}
            ELSE IF k > xlen THEN {copied}
            ELSE {copied, emptied}
    IN  {[storage_ |-> st, allocator_ |-> al] : st \in storages, al \in Contexts}

\* faulty variant: only a Null value is converted
ensure_object_null_only(self) == IF is_null(self) THEN set_object(self) ELSE self

ensure_object(self) == IF ~is_object(self) THEN set_object(self) ELSE self

\* std::find_if over the pairs: the position of the first pair whose key
\* equals key, Len(obj) + 1 standing for obj.end()
RECURSIVE find_from(_, _, _)
find_from(obj, key, i) ==
    IF i > Len(obj) THEN i
    ELSE IF obj[i].first = key THEN i
    ELSE find_from(obj, key, i + 1)

\* faulty variant: the scan starts at the second pair
find_in_object_skip_first(obj, key) ==
    IF Len(obj) = 0 THEN 1 ELSE find_from(obj, key, 2)

\* faulty variant: the last pair with the key instead of the first
find_in_object_last(obj, key) ==
    IF \E i \in 1..Len(obj) : obj[i].first = key
    THEN CHOOSE i \in 1..Len(obj) :
             /\ obj[i].first = key
             /\ \A j \in (i + 1)..Len(obj) : obj[j].first # key
    ELSE Len(obj) + 1

find_in_object(obj, key) == find_from(obj, key, 1)

End(obj) == Len(obj) + 1

\* what a call hands back: a value, an iterator (it, with static_empty set
\* when it belongs to find()'s static empty Object), or an exception; or
\* that its behaviour was undefined
Returned(v) ==
    [threw |-> FALSE, exception |-> "", what |-> "", value |-> v,
     it |-> 0, static_empty |-> FALSE]

Iterator(it, static_empty) ==
    [Returned(NoVal) EXCEPT !.it = it, !.static_empty = static_empty]

Thrown(type, what) ==
    [Returned(NoVal) EXCEPT !.threw = TRUE, !.exception = type, !.what = what]

\* a call whose behaviour is undefined, with what it did
Undefined(what) ==
    [Returned(NoVal) EXCEPT !.exception = "undefined behaviour", !.what = what]

contains(self, key) ==
    IF ~is_object(self) THEN FALSE
    ELSE find_in_object(as_object(self), key) # End(as_object(self))

find(self, key) ==
    IF ~is_object(self) THEN Iterator(End(<<>>), TRUE)
    ELSE Iterator(find_in_object(as_object(self), key), FALSE)

\* faulty variant: the new entry is inserted at the front
OpIndex_front(self, key) ==
    LET obj_self == IF ~is_object(self) THEN set_object(self) ELSE self
        obj == obj_self.storage_.alt.o
        it == find_from(obj, key, 1)
    IN  IF it = Len(obj) + 1
        THEN LET val == set_null(NewValue(obj_self.allocator_))
                 kv == [first |-> key, second |-> val]
             IN  [self |-> [obj_self EXCEPT !.storage_.alt.o = <<kv>> \o obj],
                  it |-> 1]
        ELSE [self |-> obj_self, it |-> it]

\* operator[]: [self, it], the receiver afterwards and the entry returned
OpIndex(self, key) ==
    LET obj_self == ensure_object(self)
        obj == as_object(obj_self)
        it == find_in_object(obj, key)
    IN  IF it = End(obj)
        THEN LET val == set_null(NewValue(obj_self.allocator_))
                 kv == [first |-> [i \in 1..Len(key) |-> key[i]], second |-> val]
             IN  [self |-> [obj_self EXCEPT !.storage_.alt.o = Append(obj, kv)],
                  it |-> Len(obj) + 1]
        ELSE [self |-> obj_self, it |-> it]

\* faulty variant: one message for both failures
at_one_message(self, key) ==
    IF ~is_object(self)
    THEN Thrown("std::out_of_range", "Key not found in object")
    ELSE LET obj == as_object(self)
             it == find_from(obj, key, 1)
         IN  IF it = Len(obj) + 1
             THEN Thrown("std::out_of_range", "Key not found in object")
             ELSE Iterator(it, FALSE)

\* at(): the position of the entry, or std::out_of_range
at(self, key) ==
    IF ~is_object(self)
    THEN Thrown("std::out_of_range", "Config value is not an object")
    ELSE LET obj == as_object(self)
             it == find_in_object(obj, key)
         IN  IF it = End(obj)
             THEN Thrown("std::out_of_range", "Key not found in object")
             ELSE Iterator(it, FALSE)

-----------------------------------------------------------------------------
(* The converting accessors *)

\* "Unsupported" stands for any other non-reference type
NonArithmeticTargets == {"String", "Array", "Object", "Unsupported"}

Targets == ArithmeticTargets \cup NonArithmeticTargets

\* get_impl<T>(self) for a non-reference T
get_impl(T, self) ==
    IF T \in ArithmeticTargets THEN
        IF is_integer(self) THEN numeric_from_int64(T, as_integer(self))
        ELSE IF is_floating(self) THEN numeric_from_double(T, as_floating(self))
        ELSE IF is_bool(self) THEN numeric_from_bool(T, as_bool(self))
        ELSE {Unexpected("TypeMismatch")}
    ELSE IF T = "String" THEN
        IF ~is_string(self) THEN {Unexpected("TypeMismatch")}
        ELSE {Ok(ValS(as_string(self)))}
    ELSE IF T = "Array" THEN
        IF ~is_array(self) THEN {Unexpected("TypeMismatch")}
        ELSE {Ok(ValA(as_array(self)))}
    ELSE IF T = "Object" THEN
        IF ~is_object(self) THEN {Unexpected("TypeMismatch")}
        ELSE {Ok(ValO(as_object(self)))}
    ELSE {Unexpected("TypeMismatch")}

\* faulty variant: a failed lookup of an Object is reported as KeyNotFound
try_get_keyed(T, self) ==
    IF T = "Object" /\ ~is_object(self) THEN {Unexpected("KeyNotFound")}
    ELSE get_impl(T, self)

try_get(T, self) == get_impl(T, self)

\* faulty variant: the result is dereferenced without the check
get_unchecked(T, self) == {Returned(res.value) : res \in get_impl(T, self)}

get(T, self) ==
    {IF ~res.has_value
     THEN Thrown("std::runtime_error",
                 "BasicConfigValue::get(): type mismatch or conversion error")
     ELSE Returned(res.value) : res \in get_impl(T, self)}

\* faulty variant: out is reset before the conversion is tried
get_to_clobber(T, self, out) ==
    {IF ~res.has_value
     THEN Thrown("std::runtime_error",
                 "BasicConfigValue::get_to(): type mismatch or conversion error")
     ELSE Returned(res.value) : res \in try_get(T, self)}

\* get_to(out): the value field is the variable out after the call
get_to(T, self, out) ==
    {IF ~res.has_value
     THEN [Thrown("std::runtime_error",
                  "BasicConfigValue::get_to(): type mismatch or conversion error")
           EXCEPT !.value = out]
     ELSE Returned(res.value) : res \in try_get(T, self)}

\* the types get_ref has a branch for (is_valid_pointee), which are the
\* alternatives std::get is called with
RefTargets == {"bool", "int64_t", "double", "String", "Array", "Object"}

\* the index of the alternative of type T in the variant
AltIndex(T) ==
    CASE T = "bool" -> 1
      [] T = "int64_t" -> 2
      [] T = "double" -> 3
      [] T = "String" -> 4
      [] T = "Array" -> 5
      [] T = "Object" -> 6

\* the alternative of type T of a value that holds it
Payload(T, self) ==
    CASE T = "bool" -> ValB(as_bool(self))
      [] T = "int64_t" -> ValI(as_integer(self))
      [] T = "double" -> ValD(as_floating(self))
      [] T = "String" -> ValS(as_string(self))
      [] T = "Array" -> ValA(as_array(self))
      [] T = "Object" -> ValO(as_object(self))

\* std::get<T>(storage_), the whole body of as_bool .. as_object; the text
\* of what() is the implementation's
std_get(T, self) ==
    IF self.storage_.index # AltIndex(T)
    THEN Thrown("std::bad_variant_access", "bad variant access")
    ELSE Returned(Payload(T, self))

\* the spelling of T in the messages of get_ref
RefName(T) ==
    CASE T = "bool" -> "bool&"
      [] T = "int64_t" -> "int64_t&"
      [] T = "double" -> "double&"
      [] T = "String" -> "String&"
      [] T = "Array" -> "Array&"
      [] T = "Object" -> "Object&"

\* faulty variant: the reference is to a converted copy
get_ref_converting(T, self) ==
    IF \E res \in get_impl(T, self) : res.has_value
    THEN Returned((CHOOSE res \in get_impl(T, self) : res.has_value).value)
    ELSE Thrown("std::runtime_error", "type mismatch")

get_ref(T, self) ==
    IF self.storage_.index # AltIndex(T)
    THEN Thrown("std::runtime_error",
                "BasicConfigValue::get_ref<" \o RefName(T) \o ">(): type mismatch")
    ELSE Returned(Payload(T, self))

\* the value after get_ref<T&>() = x.val, for a value that holds a T
write_ref(T, self, x) == [self EXCEPT !.storage_.alt = x.val]

\* coerce<T>() for the T it compiles for
coerce(T, self) ==
    {IF res.has_value THEN Returned(res.value)
     ELSE IF T \in ParseTargets /\ is_string(self)
     THEN LET parsed == CHOOSE p \in parse_numeric(T, as_string(self)) : TRUE
          IN  IF ~parsed.has_value
              THEN Thrown("std::runtime_error",
                          "BasicConfigValue::coerce(): string parse error")
              ELSE Returned(parsed.value)
     ELSE Thrown("std::runtime_error",
                 "BasicConfigValue::coerce(): type mismatch or unsupported coercion")
     : res \in get_impl(T, self)}

-----------------------------------------------------------------------------
(* The value tree and the caller's reference into it.  cur is the path of  *)
(* entry positions from root to the value the caller's reference denotes.  *)

RECURSIVE NodeAt(_, _)
NodeAt(v, path) ==
    IF path = <<>> THEN v
    ELSE NodeAt(as_object(v)[Head(path)].second, Tail(path))

RECURSIVE Replace(_, _, _)
Replace(v, path, node) ==
    IF path = <<>> THEN node
    ELSE [v EXCEPT !.storage_.alt.o[Head(path)].second =
                       Replace(as_object(v)[Head(path)].second, Tail(path), node)]

\* the number of object entries in a tree
RECURSIVE Entries(_)
Entries(v) ==
    IF ~is_object(v) THEN 0
    ELSE LET obj == as_object(v)
             sum[i \in 0..Len(obj)] ==
                 IF i = 0 THEN 0 ELSE sum[i - 1] + 1 + Entries(obj[i].second)
         IN  sum[Len(obj)]

\* the value the caller's reference denotes
Here == NodeAt(root, cur)

Arg(type, val) == [type |-> type, val |-> val]

NoArg == Arg("none", NoVal)

NoKey == <<>>

Done(op, key, arg, T, out) ==
    [op |-> op, path |-> cur, key |-> key, arg |-> arg, T |-> T, out |-> out]

\* a reference the caller keeps while it goes on calling: the path of the
\* entry, its key, and whether the entry is still where the reference points
Ref(path, key, valid) == [path |-> path, key |-> key, valid |-> valid]

\* a call after which the reference kept is newheld
Step3(newroot, newcur, newother, newheld, done) ==
    /\ root' = newroot
    /\ cur' = newcur
    /\ pre' = root
    /\ ret' = done
    /\ other' = newother
    /\ held' = newheld

\* a call that has the second value as receiver or as result
Step2(newroot, newcur, newother, done) ==
    Step3(newroot, newcur, newother, held, done)

Step(newroot, newcur, done) == Step2(newroot, newcur, other, done)

-----------------------------------------------------------------------------
(* Bounds and inputs *)

\* the longest chain of operator[] / at calls from the root
MaxDepth == 2

\* the most object entries a tree holds
MaxEntries == 2

\* keys: one is a proper prefix of the other
Keys == {<<"k">>, <<"k", "k">>}

Int64(n) == Arg("int64_t", ValI(n))

Double(d) == Arg("double", ValD(d))

Bool(b) == Arg("bool", ValB(b))

Str(s) == Arg("String", ValS(s))

\* what the tree operations assign
TreeArgs ==
    {Bool(TRUE), Int64(BigOfInt(1)), Double(Fin(BigOfInt(7))), Str(<<"x">>)}

-----------------------------------------------------------------------------
(* Initial state: a default-constructed value, a reference to it *)

Init ==
    /\ root = NewValue("A")
    /\ cur = <<>>
    /\ pre = NewValue("A")
    /\ ret = [op |-> "construct", path |-> <<>>, key |-> NoKey, arg |-> NoArg,
              T |-> "", out |-> Returned(NoVal)]
    /\ other = NewValue("B")
    /\ held = Ref(<<>>, NoKey, TRUE)

-----------------------------------------------------------------------------
(* Operations on the value the reference denotes *)

\* the caller takes its reference to the root again
Reset ==
    /\ cur # <<>>
    /\ Step(root, <<>>, Done("root", NoKey, NoArg, "", Returned(NoVal)))

\* r = self[key]: the reference moves to the entry returned
Index(key) ==
    LET r == OpIndex(Here, key)
        newroot == Replace(root, cur, r.self)
    IN  /\ Len(cur) < MaxDepth
        /\ Entries(newroot) <= MaxEntries
        /\ Step(newroot, Append(cur, r.it),
                Done("index", key, NoArg, "", Iterator(r.it, FALSE)))

\* r = self.at(key): the reference moves to the entry, or the call throws
At(key) ==
    LET r == at(Here, key)
    IN  /\ Len(cur) < MaxDepth
        /\ Step(root, IF r.threw THEN cur ELSE Append(cur, r.it),
                Done("at", key, NoArg, "", r))

\* self[key].assign(x): the statement of the two calls; the reference moves
\* to the entry assigned
IndexAssign(key, x) ==
    LET r == OpIndex(Here, key)
        entry == Append(cur, r.it)
        indexed == Replace(root, cur, r.self)
        newroot == Replace(indexed, entry, assign(NodeAt(indexed, entry), x))
    IN  /\ Len(cur) < MaxDepth
        /\ Entries(newroot) <= MaxEntries
        /\ Step(newroot, entry,
                Done("index_assign", key, x, "", Iterator(r.it, FALSE)))

Contains(key) ==
    LET r == contains(Here, key)
    IN  Step(root, cur, Done("contains", key, NoArg, "", Returned(ValB(r))))

\* faulty variant: the receiver is made an Object first, as operator[] does
Find_ensure(key) ==
    LET self == ensure_object(Here)
        r == find(self, key)
    IN  Step(Replace(root, cur, self), cur, Done("find", key, NoArg, "", r))

Find(key) ==
    LET r == find(Here, key)
    IN  Step(root, cur, Done("find", key, NoArg, "", r))

Assign(x) ==
    LET r == assign(Here, x)
    IN  Step(Replace(root, cur, r), cur,
             Done("assign", NoKey, x, "", Returned(NoVal)))

SetNull ==
    LET r == set_null(Here)
    IN  Step(Replace(root, cur, r), cur,
             Done("set_null", NoKey, NoArg, "", Returned(NoVal)))

SetBool(value) ==
    LET r == set_bool(Here, value)
    IN  Step(Replace(root, cur, r), cur,
             Done("set_bool", NoKey, Bool(value), "", Returned(NoVal)))

SetInteger(value) ==
    LET r == set_integer(Here, value)
    IN  Step(Replace(root, cur, r), cur,
             Done("set_integer", NoKey, Int64(value), "", Returned(NoVal)))

SetFloating(value) ==
    LET r == set_floating(Here, value)
    IN  Step(Replace(root, cur, r), cur,
             Done("set_floating", NoKey, Double(value), "", Returned(NoVal)))

SetString(s) ==
    LET r == set_string(Here, s)
    IN  Step(Replace(root, cur, r), cur,
             Done("set_string", NoKey, Str(s), "", Returned(NoVal)))

SetArray ==
    LET r == set_array(Here)
    IN  Step(Replace(root, cur, r), cur,
             Done("set_array", NoKey, NoArg, "", Returned(NoVal)))

SetObject ==
    LET r == set_object(Here)
    IN  Step(Replace(root, cur, r), cur,
             Done("set_object", NoKey, NoArg, "", Returned(NoVal)))

Next ==
    \/ Reset
    \/ \E key \in Keys : Index(key)
    \/ \E key \in Keys : At(key)
    \/ \E key \in Keys, x \in TreeArgs : IndexAssign(key, x)
    \/ \E key \in Keys : Contains(key)
    \/ \E key \in Keys : Find(key)
    \/ \E x \in TreeArgs : Assign(x)
    \/ SetNull
    \/ SetArray
    \/ SetObject

Spec == Init /\ [][Next]_vars

-----------------------------------------------------------------------------
(* The converting accessors on one value: numbers at and around every      *)
(* limit of every target type are assigned and read back as every target.  *)

\* the exponents w with a limit of some target, or of the double's
\* significand, at 2^w
LimitExponents == {7, 8, 15, 16, 31, 32, 53}

Int64Max == LimitsMax("int64_t")

Int64Min == LimitsMin("int64_t")

IntSamples ==
    {BigZero, BigOne, BigOfInt(-1), BigOfInt(2), BigOfInt(42)}
    \cup UNION {{BigSub(Pow2(w), BigOne), Pow2(w), BigAdd(Pow2(w), BigOne),
                 BigNeg(Pow2(w)), BigSub(BigNeg(Pow2(w)), BigOne)}
                : w \in LimitExponents}
    \cup {Int64Max, BigSub(Int64Max, BigOne), Int64Min, BigAdd(Int64Min, BigOne)}

\* whole doubles: the integer samples as doubles, the doubles next to
\* 2^63 and 2^64 on either side, and one beyond every integral type
WholeDoubleSamples ==
    {StaticCastDouble(n) : n \in IntSamples}
    \cup {Whole(Pow2(63)), Whole(BigSub(Pow2(63), Pow2(10))),
          Whole(BigAdd(Pow2(63), Pow2(11))),
          Whole(BigNeg(BigAdd(Pow2(63), Pow2(11)))),
          Whole(Pow2(64)), Whole(BigSub(Pow2(64), Pow2(11))),
          Whole(BigAdd(Pow2(64), Pow2(12))), Whole(Pow2(70)),
          Whole(BigNeg(Pow2(70)))}

\* doubles with fraction .5, small and up to the largest one, 2^52 - 0.5
FractionalDoubleSamples ==
    {Fin(h) : h \in {BigOfInt(1), BigOfInt(-1), BigOfInt(3), BigOfInt(7),
                     BigOfInt(-7), BigOfInt(255), BigOfInt(-257),
                     BigOfInt(513), BigAdd(Pow2(32), BigOne),
                     BigNeg(BigAdd(Pow2(32), BigOne)),
                     BigSub(Pow2(53), BigOne), BigNeg(BigSub(Pow2(53), BigOne))}}

DoubleSamples ==
    WholeDoubleSamples \cup FractionalDoubleSamples \cup {NaN, PosInf, NegInf}

StringSamples == {<<>>, <<"x">>, <<"1", "2", "3">>}

\* integral arguments of the other widths and of unsigned type, the
\* unsigned 64-bit ones on either side of INT64_MAX
IntegralArgs ==
    {Arg("uint64_t", ValI(n)) :
        n \in {BigZero, Int64Max, Pow2(63), BigSub(Pow2(64), BigOne)}}
    \cup {Arg("uint32_t", ValI(BigSub(Pow2(32), BigOne))),
          Arg("int32_t", ValI(BigNeg(Pow2(31)))),
          Arg("uint8_t", ValI(BigOfInt(255))),
          Arg("int8_t", ValI(BigOfInt(-128)))}

ConvArgs ==
    {Bool(b) : b \in BOOLEAN}
    \cup {Int64(n) : n \in IntSamples}
    \cup IntegralArgs
    \cup {Double(d) : d \in DoubleSamples}
    \cup {Str(s) : s \in StringSamples}

\* the caller's variable handed to get_to, before the call
OutVar ==
    [b |-> TRUE, i |-> BigOfInt(99), d |-> Fin(BigOfInt(199)),
     s |-> <<"o", "u", "t">>, a |-> <<>>, o |-> <<>>]

TryGet(T) ==
    \E r \in try_get(T, Here) :
        Step(root, cur, Done("try_get", NoKey, NoArg, T, r))

Get(T) ==
    \E r \in get(T, Here) :
        Step(root, cur, Done("get", NoKey, NoArg, T, r))

GetTo(T) ==
    \E r \in get_to(T, Here, OutVar) :
        Step(root, cur, Done("get_to", NoKey, Arg(T, OutVar), T, r))

NextConv ==
    \/ \E x \in ConvArgs : Assign(x)
    \/ SetNull
    \/ SetArray
    \/ SetObject
    \/ \E T \in Targets : TryGet(T)
    \/ \E T \in Targets : Get(T)
    \/ \E T \in Targets : GetTo(T)

SpecConv == Init /\ [][NextConv]_vars

-----------------------------------------------------------------------------
(* The tree operations, with the caller also writing to an Object through  *)
(* the reference as_object() returns: the pairs are a std::vector, which   *)
(* takes any key, one already present included.                            *)

PushBack(key, x) ==
    LET val == assign(NewValue(Here.allocator_), x)
        kv == [first |-> key, second |-> val]
        r == [Here EXCEPT !.storage_.alt.o = Append(as_object(Here), kv)]
        newroot == Replace(root, cur, r)
    IN  /\ is_object(Here)
        /\ Entries(newroot) <= MaxEntries
        /\ Step(newroot, cur, Done("push_back", key, x, "", Returned(NoVal)))

\* the most elements an Array holds
MaxElements == 2

\* what is pushed onto an Array
ArrayArgs == {Int64(BigOfInt(1)), Str(<<"x">>)}

\* as_array().push_back(elem) with elem assigned x
ArrayPushBack(x) ==
    LET elem == assign(NewValue(Here.allocator_), x)
        r == [Here EXCEPT !.storage_.alt.a = Append(as_array(Here), elem)]
    IN  /\ is_array(Here)
        /\ Len(as_array(Here)) < MaxElements
        /\ Step(Replace(root, cur, r), cur,
                Done("array_push_back", NoKey, x, "", Returned(NoVal)))

NextRaw ==
    \/ Next
    \/ \E key \in Keys, x \in TreeArgs : PushBack(key, x)

SpecRaw == Init /\ [][NextRaw]_vars

-----------------------------------------------------------------------------
(* The seven mutators on one value, which the caller fills through the     *)
(* references as_array() and as_object() return.                           *)

NextSet ==
    \/ SetNull
    \/ \E x \in TreeArgs : x.type = "bool" /\ SetBool(x.val.b)
    \/ \E x \in TreeArgs : x.type = "int64_t" /\ SetInteger(x.val.i)
    \/ \E x \in TreeArgs : x.type = "double" /\ SetFloating(x.val.d)
    \/ \E x \in TreeArgs : x.type = "String" /\ SetString(x.val.s)
    \/ SetArray
    \/ SetObject
    \/ \E key \in Keys, x \in TreeArgs : PushBack(key, x)
    \/ \E x \in ArrayArgs : ArrayPushBack(x)

SpecSet == Init /\ [][NextSet]_vars

-----------------------------------------------------------------------------
(* Two values: copies and moves from the first to the second, and          *)
(* mutations of either.                                                    *)

CopyArgs == {Int64(BigOfInt(42)), Str(<<"x">>)}

\* BasicConfigValue b = a
CopyConstruct ==
    Step2(root, cur, CopyConstructed(root),
          Done("copy_construct", NoKey, NoArg, "", Returned(NoVal)))

\* b = a
CopyAssign ==
    Step2(root, cur, CopyConstructed(root),
          Done("copy_assign", NoKey, NoArg, "", Returned(NoVal)))

\* b.assign(a): storage_ = other.storage_; allocator_ = other.allocator_
AssignCopy ==
    Step2(root, cur,
          [storage_ |-> CopyConstructed(root).storage_,
           allocator_ |-> root.allocator_],
          Done("assign_copy", NoKey, NoArg, "", Returned(NoVal)))

\* BasicConfigValue c = std::move(b); the caller's reference into b is
\* taken to b itself again
MoveConstruct ==
    \E m \in MovedFrom(root) :
        Step2(m, <<>>, MoveConstructed(root),
              Done("move_construct", NoKey, NoArg, "", Returned(NoVal)))

\* c = std::move(b)
MoveAssign ==
    \E m \in MovedFrom(root) :
        Step2(m, <<>>, MoveConstructed(root),
              Done("move_assign", NoKey, NoArg, "", Returned(NoVal)))

\* c.assign(std::move(b)): *this = std::move(other)
AssignMove ==
    \E m \in MovedFrom(root) :
        Step2(m, <<>>, MoveConstructed(root),
              Done("assign_move", NoKey, NoArg, "", Returned(NoVal)))

\* b[key].assign(x) on the second value
OtherIndexAssign(key, x) ==
    LET r == OpIndex(other, key)
        newother == Replace(r.self, <<r.it>>,
                            assign(NodeAt(r.self, <<r.it>>), x))
    IN  /\ Entries(newother) <= MaxEntries
        /\ Step2(root, cur, newother,
                 Done("other_index_assign", key, x, "", Iterator(r.it, FALSE)))

\* b.assign(x) on the second value
OtherAssign(x) ==
    Step2(root, cur, assign(other, x),
          Done("other_assign", NoKey, x, "", Returned(NoVal)))

NextCopy ==
    \/ Reset
    \/ \E key \in Keys, x \in CopyArgs : IndexAssign(key, x)
    \/ \E x \in CopyArgs : Assign(x)
    \/ CopyConstruct
    \/ CopyAssign
    \/ AssignCopy
    \/ MoveConstruct
    \/ MoveAssign
    \/ AssignMove
    \/ \E key \in Keys, x \in CopyArgs : OtherIndexAssign(key, x)
    \/ \E x \in CopyArgs : OtherAssign(x)

SpecCopy == Init /\ [][NextCopy]_vars

-----------------------------------------------------------------------------
(* Every way a value comes to be or changes kind: construction, the seven  *)
(* mutators, assign, operator[], copies and moves.                         *)

\* one key: the trees are chains, and every kind is set at every depth
NextKind ==
    \/ Reset
    \/ Index(<<"k">>)
    \/ \E x \in CopyArgs : Assign(x)
    \/ SetNull
    \/ \E x \in TreeArgs : x.type = "bool" /\ SetBool(x.val.b)
    \/ \E x \in TreeArgs : x.type = "int64_t" /\ SetInteger(x.val.i)
    \/ \E x \in TreeArgs : x.type = "double" /\ SetFloating(x.val.d)
    \/ \E x \in TreeArgs : x.type = "String" /\ SetString(x.val.s)
    \/ SetArray
    \/ SetObject
    \/ CopyConstruct
    \/ CopyAssign
    \/ AssignCopy
    \/ MoveConstruct
    \/ MoveAssign
    \/ AssignMove
    \/ \E x \in CopyArgs : OtherAssign(x)

SpecKind == Init /\ [][NextKind]_vars

-----------------------------------------------------------------------------
(* A tree built with one allocation context, "A", and a second value built *)
(* with another, "B", which is assigned to the values of the tree.         *)

\* r.assign(b), b the second value
AssignValue ==
    LET newroot == Replace(root, cur, assign_copy(Here, other))
    IN  /\ Entries(newroot) <= MaxEntries
        /\ Step(newroot, cur,
                Done("assign_value", NoKey, NoArg, "", Returned(NoVal)))

\* r.assign(std::move(b))
AssignValueMove ==
    LET newroot == Replace(root, cur, assign_move(Here, other))
    IN  /\ Entries(newroot) <= MaxEntries
        /\ \E m \in MovedFrom(other) :
               Step2(newroot, cur, m,
                     Done("assign_value_move", NoKey, NoArg, "", Returned(NoVal)))

NextAlloc ==
    \/ Reset
    \/ Index(<<"k">>)
    \/ \E x \in CopyArgs : Assign(x)
    \/ SetNull
    \/ SetArray
    \/ SetObject
    \/ ArrayPushBack(Int64(BigOfInt(1)))
    \/ \E x \in CopyArgs : OtherAssign(x)
    \/ OtherIndexAssign(<<"k">>, Int64(BigOfInt(42)))
    \/ AssignValue
    \/ AssignValueMove

SpecAlloc == Init /\ [][NextAlloc]_vars

-----------------------------------------------------------------------------
(* A value is assigned one of the values it owns *)

\* v.assign(c), c the k-th entry or element of v
AssignChild(k) ==
    /\ is_object(Here) \/ is_array(Here)
    /\ k \in 1..Len(Children(Here))
    /\ \E r \in assign_child(Here, k) :
           Step(Replace(root, cur, r), cur,
                Done("assign_child", NoKey, NoArg, "",
                     [Undefined("other is read after it was destroyed")
                      EXCEPT !.it = k]))

NextSelf ==
    \/ Reset
    \/ \E key \in Keys : Index(key)
    \/ \E x \in CopyArgs : Assign(x)
    \/ SetArray
    \/ SetObject
    \/ ArrayPushBack(Int64(BigOfInt(1)))
    \/ \E k \in 1..MaxEntries : AssignChild(k)

SpecSelf == Init /\ [][NextSelf]_vars

-----------------------------------------------------------------------------
(* A reference to an entry, kept while the Object takes further keys.  The *)
(* entries are a std::vector: emplace_back into a full one moves them to   *)
(* new storage and releases the old, which the reference still points to.  *)

\* whether self[key] moves the entries of self to new storage
Reallocates(self, key) ==
    /\ is_object(self)
    /\ ~contains(self, key)
    /\ Len(as_object(self)) = Capacity(Len(as_object(self)))

\* r = v[key], the reference kept from now on
Keep(key) ==
    LET r == OpIndex(root, key)
    IN  /\ cur = <<>>
        /\ Entries(r.self) <= MaxEntries
        /\ Step3(r.self, cur, other, Ref(<<r.it>>, key, TRUE),
                 Done("keep", key, NoArg, "", Iterator(r.it, FALSE)))

\* v[key], with the reference r kept from before
Insert(key) ==
    LET r == OpIndex(root, key)
        newheld == IF held.path # <<>> /\ Reallocates(root, key)
                   THEN [held EXCEPT !.valid = FALSE]
                   ELSE held
    IN  /\ cur = <<>>
        /\ Entries(r.self) <= MaxEntries
        /\ Step3(r.self, cur, other, newheld,
                 Done("insert", key, NoArg, "", Iterator(r.it, FALSE)))

\* r.assign(x).  Through a reference to released storage the behaviour is
\* undefined: the write goes to the old storage and v is as it was, or it
\* shows in v nevertheless
HeldAssign(x) ==
    LET written == Replace(root, held.path, assign(NodeAt(root, held.path), x))
    IN  /\ cur = <<>>
        /\ IF held.valid
           THEN Step(written, cur,
                     Done("held_assign", held.key, x, "", Returned(NoVal)))
           ELSE \E newroot \in {root, written} :
                    Step(newroot, cur,
                         Done("held_assign", held.key, x, "",
                              Undefined("write to released storage")))

NextRef ==
    \/ \E key \in Keys : Keep(key)
    \/ \E key \in Keys : Insert(key)
    \/ \E x \in TreeArgs : HeldAssign(x)

SpecRef == Init /\ [][NextRef]_vars

-----------------------------------------------------------------------------
(* Every accessor on one value, texts to parse among the values            *)

ParseSamples ==
    {<<>>, <<"x">>, <<"1", "2", "3">>, <<"3", ".", "5">>, <<"-", "7">>,
     <<"+", "7">>, <<" ", "7">>, <<"7", " ">>, <<"7", "x">>,
     <<"1", "2", "8">>, <<"-", "1", "2", "9">>, <<"2", "5", "6">>,
     <<"1", "e", "2">>, <<"1", "e">>, <<"5", "e", "-", "1">>, <<".", "5">>,
     <<"7", ".">>, <<".">>, <<"-">>, <<"i", "n", "f">>, <<"n", "a", "n">>,
     <<"1", "e", "9", "9", "9">>, <<"0", "0", "7">>,
     <<"2", "1", "4", "7", "4", "8", "3", "6", "4", "8">>,
     <<"9", "2", "2", "3", "3", "7", "2", "0", "3", "6", "8", "5", "4", "7",
       "7", "5", "8", "0", "8">>,
     <<"1", "8", "4", "4", "6", "7", "4", "4", "0", "7", "3", "7", "0", "9",
       "5", "5", "1", "6", "1", "6">>,
     <<"n", "o", "t", "-", "a", "-", "n", "u", "m", "b", "e", "r">>}

AccessArgs ==
    {Str(s) : s \in ParseSamples}
    \cup {Bool(b) : b \in BOOLEAN}
    \cup {Int64(n) : n \in {BigZero, BigOfInt(300), BigOfInt(-1)}}
    \cup {Double(d) : d \in {Fin(BigOfInt(7)), Whole(BigOfInt(2)), NaN,
                             Whole(Pow2(63))}}

\* coerce<bool> does not compile: parse_numeric<bool> has no from_chars
CoerceTargets == Targets \ {"bool"}

GetRef(T) ==
    Step(root, cur, Done("get_ref", NoKey, NoArg, T, get_ref(T, Here)))

\* get_ref<T&>() = x
WriteRef(T, x) ==
    /\ ~get_ref(T, Here).threw
    /\ x.type = T
    /\ Step(Replace(root, cur, write_ref(T, Here, x)), cur,
            Done("write_ref", NoKey, x, T, Returned(x.val)))

\* as_bool() .. as_object()
As(T) ==
    Step(root, cur, Done("as", NoKey, NoArg, T, std_get(T, Here)))

Coerce(T) ==
    \E r \in coerce(T, Here) :
        Step(root, cur, Done("coerce", NoKey, NoArg, T, r))

\* parse_numeric<T> of the full contents of a stored string
ParseNumeric(T) ==
    /\ is_string(Here)
    /\ \E r \in parse_numeric(T, as_string(Here)) :
           Step(root, cur,
                Done("parse_numeric", NoKey, Str(as_string(Here)), T, r))

NextAccess ==
    \/ \E x \in AccessArgs : Assign(x)
    \/ SetNull
    \/ SetArray
    \/ SetObject
    \/ \E T \in Targets : TryGet(T)
    \/ \E T \in Targets : Get(T)
    \/ \E T \in Targets : GetTo(T)
    \/ \E T \in RefTargets : GetRef(T)
    \/ \E T \in RefTargets, x \in AccessArgs : WriteRef(T, x)
    \/ \E T \in RefTargets : As(T)
    \/ \E T \in CoerceTargets : Coerce(T)
    \/ \E key \in Keys : At(key)
    \/ \E T \in ParseTargets : ParseNumeric(T)

SpecAccess == Init /\ [][NextAccess]_vars

-----------------------------------------------------------------------------
(* The read operations on the values of a tree that IndexAssign builds     *)

\* a number that narrows with a fraction lost, a text that parses and one
\* that does not
ReadArgs == {Double(Fin(BigOfInt(7))), Str(<<"1", "2", "3">>), Str(<<"x">>)}

KindNames ==
    {"Null", "Boolean", "Integer", "Floating", "String", "Array", "Object"}

\* kind(): the enumerator is handed back by its name
Kind ==
    Step(root, cur, Done("kind", NoKey, NoArg, kind(Here), Returned(NoVal)))

\* is_null() .. is_object(), K naming the kind asked for
Is(K) ==
    LET r == CASE K = "Null" -> is_null(Here)
               [] K = "Boolean" -> is_bool(Here)
               [] K = "Integer" -> is_integer(Here)
               [] K = "Floating" -> is_floating(Here)
               [] K = "String" -> is_string(Here)
               [] K = "Array" -> is_array(Here)
               [] K = "Object" -> is_object(Here)
    IN  Step(root, cur, Done("is", NoKey, NoArg, K, Returned(ValB(r))))

NextRead ==
    \/ Reset
    \/ \E key \in Keys, x \in ReadArgs : IndexAssign(key, x)
    \/ Kind
    \/ \E K \in KindNames : Is(K)
    \/ \E key \in Keys : Contains(key)
    \/ \E key \in Keys : Find(key)
    \/ \E key \in Keys : At(key)
    \/ \E T \in Targets : TryGet(T)
    \/ \E T \in Targets : Get(T)
    \/ \E T \in Targets : GetTo(T)
    \/ \E T \in CoerceTargets : Coerce(T)

SpecRead == Init /\ [][NextRead]_vars

-----------------------------------------------------------------------------
(* Properties of the object navigation *)

\* the receiver of the last call, before and after it
Before == NodeAt(pre, ret.path)

After == NodeAt(root, ret.path)

HasKey(obj, key) == \E i \in 1..Len(obj) : obj[i].first = key

\* v holds exactly the value the argument x stands for
Stores(v, x) ==
    CASE x.type = "bool" -> v.storage_ = Storage(1, ValB(x.val.b))
      [] x.type = "int64_t" -> v.storage_ = Storage(2, ValI(x.val.i))
      [] x.type = "double" -> v.storage_ = Storage(3, ValD(x.val.d))
      [] x.type = "String" -> v.storage_ = Storage(4, ValS(x.val.s))
      [] OTHER -> FALSE

\* C1: v[k].assign(x) on a value v that is not an Object does not fail and
\* leaves v an Object whose only entry is k -> x, nothing of the old
\* payload of v being left; the rest of the tree is as it was.
C1_VivifyThenAssign ==
    (ret.op = "index_assign" /\ ~is_object(Before)) =>
        /\ ~ret.out.threw
        /\ is_object(After)
        /\ Len(as_object(After)) = 1
        /\ as_object(After)[1].first = ret.key
        /\ Stores(as_object(After)[1].second, ret.arg)
        /\ After.storage_.alt = ValO(as_object(After))
        /\ root = Replace(pre, ret.path, After)

C1_Witness ==
    /\ ret.op = "index_assign"
    /\ is_string(Before)
    /\ ret.path # <<>>
    /\ is_object(After)

RECURSIVE DistinctKeys(_)
DistinctKeys(v) ==
    is_object(v) =>
        LET obj == as_object(v)
        IN  /\ \A i, j \in 1..Len(obj) : i # j => obj[i].first # obj[j].first
            /\ \A i \in 1..Len(obj) : DistinctKeys(obj[i].second)

\* C2: under operator[], assign and set_* alone, the keys of every Object
\* of the tree are pairwise distinct, and operator[](k) on an Object that
\* holds k returns that entry and changes nothing.
C2_DistinctKeys ==
    /\ DistinctKeys(root)
    /\ (ret.op = "index" /\ is_object(Before) /\ HasKey(as_object(Before), ret.key)) =>
           /\ root = pre
           /\ as_object(Before)[ret.out.it].first = ret.key
           /\ cur = Append(ret.path, ret.out.it)

C2_Witness ==
    /\ ret.op = "index"
    /\ is_object(Before)
    /\ Len(as_object(Before)) = 2
    /\ ret.out.it = 2
    /\ root = pre

\* C3: operator[](k) on an Object without k appends the one entry
\* (k, Null) at the end: the entries before it are the old entries, in
\* their order, and nothing else in the tree changes.
C3_AppendsAtEnd ==
    (ret.op = "index" /\ is_object(Before) /\ ~HasKey(as_object(Before), ret.key)) =>
        LET old == as_object(Before)
            new == as_object(After)
        IN  /\ is_object(After)
            /\ Len(new) = Len(old) + 1
            /\ \A i \in 1..Len(old) : new[i] = old[i]
            /\ new[Len(new)].first = ret.key
            /\ new[Len(new)].second.storage_ = Storage(0, NoVal)
            /\ ret.out.it = Len(new)
            /\ cur = Append(ret.path, Len(new))
            /\ root = Replace(pre, ret.path, After)

C3_Witness ==
    /\ ret.op = "index"
    /\ is_object(Before)
    /\ Len(as_object(Before)) = 1
    /\ ~is_null(as_object(Before)[1].second)
    /\ Len(as_object(After)) = 2

\* C4: at(k) throws on a value that is not an Object and throws on an
\* Object without k, with a different message in the two cases; it
\* returns the entry when k is present; it never changes the value.
C4_At ==
    ret.op = "at" =>
        /\ root = pre
        /\ ~is_object(Before) =>
               /\ ret.out.threw
               /\ ret.out.what = "Config value is not an object"
               /\ cur = ret.path
        /\ (is_object(Before) /\ ~HasKey(as_object(Before), ret.key)) =>
               /\ ret.out.threw
               /\ ret.out.what = "Key not found in object"
               /\ ret.out.what # "Config value is not an object"
               /\ cur = ret.path
        /\ (is_object(Before) /\ HasKey(as_object(Before), ret.key)) =>
               /\ ~ret.out.threw
               /\ as_object(Before)[ret.out.it].first = ret.key
               /\ cur = Append(ret.path, ret.out.it)

C4_Witness ==
    /\ ret.op = "at"
    /\ ret.out.threw
    /\ is_object(Before)
    /\ Len(as_object(Before)) > 0

\* the first position of key among the pairs, Len(obj) + 1 if there is none
FirstMatch(obj, key) ==
    IF HasKey(obj, key)
    THEN CHOOSE i \in 1..Len(obj) :
             /\ obj[i].first = key
             /\ \A j \in 1..(i - 1) : obj[j].first # key
    ELSE Len(obj) + 1

\* C5: on a value that is not an Object contains(k) is false; on an Object
\* contains(k), find(k) # end() and "at(k) returns" are equivalent, and
\* find(k) and at(k) then denote the first entry whose key is k.
C5_LookupsAgree ==
    \A key \in Keys :
        LET c == contains(Here, key)
            f == find(Here, key)
            a == at(Here, key)
        IN  IF ~is_object(Here)
            THEN ~c /\ a.threw /\ f.static_empty
            ELSE LET obj == as_object(Here)
                 IN  /\ c <=> HasKey(obj, key)
                     /\ c <=> (f.it # Len(obj) + 1)
                     /\ c <=> ~a.threw
                     /\ ~f.static_empty
                     /\ f.it = FirstMatch(obj, key)
                     /\ c => a.it = FirstMatch(obj, key)

C5_Witness ==
    /\ ret.op = "find"
    /\ is_object(Here)
    /\ Len(as_object(Here)) = 2
    /\ as_object(Here)[1].first = as_object(Here)[2].first
    /\ ret.key = as_object(Here)[1].first
    /\ ret.out.it = 1

-----------------------------------------------------------------------------
(* Properties of the converting accessors *)

TryFails(T, v) == \A r \in try_get(T, v) : ~r.has_value

\* C6: get<T>() and get_to() return v exactly when try_get<T>() returns the
\* value v and throw exactly when try_get<T>() returns an error; what
\* try_get<T>() returns is a value get<T>() returns, or an error where
\* get<T>() throws.
C6_GetMatchesTryGet ==
    /\ ret.op \in {"get", "get_to"} =>
           /\ ret.out.threw <=> TryFails(ret.T, Here)
           /\ ~ret.out.threw => Ok(ret.out.value) \in try_get(ret.T, Here)
    /\ ret.op = "try_get" =>
           IF ret.out.has_value
           THEN Returned(ret.out.value) \in get(ret.T, Here)
           ELSE \A g \in get(ret.T, Here) : g.threw

C6_Witness ==
    /\ ret.op = "get"
    /\ ret.out.threw
    /\ is_floating(Here)
    /\ ret.T = "int32_t"

InRange(n, T) == ~BigLT(n, LimitsMin(T)) /\ ~BigGT(n, LimitsMax(T))

NarrowTargets == IntegralTargets \ {"int64_t", "uint64_t"}

\* C7: for a stored Integer n and an integral T narrower than 64 bits,
\* try_get<T>() is n when T.min <= n <= T.max and OutOfRange otherwise.
C7_RangeLaw ==
    (ret.op = "try_get" /\ is_integer(Here) /\ ret.T \in NarrowTargets) =>
        IF InRange(as_integer(Here), ret.T)
        THEN ret.out = Ok(ValI(as_integer(Here)))
        ELSE ret.out = Unexpected("OutOfRange")

C7_Witness ==
    /\ ret.op = "try_get"
    /\ is_integer(Here)
    /\ as_integer(Here) = Int64Max
    /\ ret.T = "int32_t"
    /\ ret.out = Unexpected("OutOfRange")

\* the integral targets, bool among them (std::is_integral_v<bool>)
IntegralOrBool == IntegralTargets \cup {"bool"}

\* C8 as stated: for a stored Floating d with trunc(d) != d and an integral
\* T, try_get<T>() is FractionalLoss.
C8_Original ==
    (/\ ret.op = "try_get"
     /\ is_floating(Here)
     /\ DoubleNE(trunc(as_floating(Here)), as_floating(Here))
     /\ ret.T \in IntegralOrBool) =>
        ret.out = Unexpected("FractionalLoss")

\* C8: for a stored finite Floating d with trunc(d) != d and an integral
\* T, try_get<T>() is FractionalLoss, whatever the size and sign of d.
C8_FractionalLaw ==
    (/\ ret.op = "try_get"
     /\ is_floating(Here)
     /\ isfinite(as_floating(Here))
     /\ DoubleNE(trunc(as_floating(Here)), as_floating(Here))
     /\ ret.T \in IntegralOrBool) =>
        ret.out = Unexpected("FractionalLoss")

\* 2^31 + 0.5 read as an 8-bit integer: outside the range and fractional
C8_Witness ==
    /\ ret.op = "try_get"
    /\ is_floating(Here)
    /\ as_floating(Here) = Fin(BigAdd(Pow2(32), BigOne))
    /\ ret.T = "int8_t"
    /\ ret.out = Unexpected("FractionalLoss")

\* C9: for a stored finite whole Floating d and an integral T, try_get<T>()
\* is the integer d when T.min <= d <= T.max and OutOfRange otherwise.
C9_WholeDoubleRange ==
    (/\ ret.op = "try_get"
     /\ is_floating(Here)
     /\ isfinite(as_floating(Here))
     /\ ~DoubleNE(trunc(as_floating(Here)), as_floating(Here))
     /\ ret.T \in IntegralTargets) =>
        IF InRange(WholePart(as_floating(Here)), ret.T)
        THEN ret.out = Ok(ValI(WholePart(as_floating(Here))))
        ELSE ret.out = Unexpected("OutOfRange")

RoundTripTypes == {"bool", "int64_t", "double", "String"}

\* C10 as stated: after assign(v) of a bool, a 64-bit signed integer, a
\* double or a string, the matching get returns v.
C10_Original ==
    (ret.op = "assign" /\ ret.arg.type \in RoundTripTypes) =>
        get(ret.arg.type, Here) = {Returned(ret.arg.val)}

\* C10: after assign(v) of a bool, a 64-bit signed integer, a finite
\* double or a string, on a value of any kind, the matching get returns v.
C10_RoundTrip ==
    (/\ ret.op = "assign"
     /\ ret.arg.type \in RoundTripTypes
     /\ ret.arg.type = "double" => isfinite(ret.arg.val.d)) =>
        get(ret.arg.type, Here) = {Returned(ret.arg.val)}

C10_Witness ==
    /\ ret.op = "assign"
    /\ ret.arg = Int64(Int64Min)
    /\ is_string(pre)
    /\ is_integer(root)

\* C11: assign(x) of a non-boolean integral x of any width and signedness
\* stores the Integer x, and for an unsigned 64-bit x the get of that type
\* then returns x.
C11_AssignIntegral ==
    (ret.op = "assign" /\ ret.arg.type \in IntegralTargets) =>
        /\ is_integer(Here)
        /\ as_integer(Here) = ret.arg.val.i
        /\ ret.arg.type = "uint64_t" =>
               get("uint64_t", Here) = {Returned(ret.arg.val)}

-----------------------------------------------------------------------------
(* Properties of coercion, parsing and the failure reports *)

\* the values the accessors are called on
AccessValues ==
    {assign(NewValue("A"), x) : x \in AccessArgs}
    \cup {NewValue("A"), set_array(NewValue("A")), set_object(NewValue("A"))}

\* the error try_get<T>() returns on v, None when it returns a value
Errors(T, v) == {r.error : r \in try_get(T, v)}

\* coerce<T>() on v fails outside the parse of a string
CoerceFallsThrough(T, v) ==
    TryFails(T, v) /\ ~(T \in ArithmeticTargets /\ is_string(v))

\* C12: coerce<T>() returns what the converting path returns when that path
\* succeeds; when it fails with T arithmetic and a String stored, coerce
\* returns the number parsed from the whole string or fails when the parse
\* fails; in every other case it fails, and its failure tells the reason the
\* converting path failed with.
C12_Coerce ==
    ret.op = "coerce" =>
        IF ~TryFails(ret.T, Here)
        THEN ~ret.out.threw /\ Ok(ret.out.value) \in try_get(ret.T, Here)
        ELSE IF ret.T \in ArithmeticTargets /\ is_string(Here)
        THEN \A p \in parse_numeric(ret.T, as_string(Here)) :
                 IF p.has_value THEN ret.out = Returned(p.value)
                 ELSE ret.out.threw
        ELSE /\ ret.out.threw
             /\ \A v \in AccessValues, T \in CoerceTargets :
                    (CoerceFallsThrough(T, v) /\ ret.out \in coerce(T, v)) =>
                        Errors(T, v) = Errors(ret.T, Here)

AllDigits(s) == Len(s) >= 1 /\ \A k \in 1..Len(s) : IsDigit(s[k])

Unsigned(s) == IF Len(s) >= 1 /\ s[1] = "-" THEN Tail(s) ELSE s

\* a base-10 integer literal: digits, after a minus sign or not
IntegerLiteral(s) == AllDigits(Unsigned(s))

\* the number an integer literal spells
LiteralValue(s) ==
    LET m == DigitsValue(Unsigned(s), 1, Len(Unsigned(s)) + 1, BigZero)
    IN  IF Unsigned(s) = s THEN m ELSE BigNeg(m)

\* digits with at most one point among them
Mantissa(s) ==
    \/ AllDigits(s)
    \/ \E p \in 1..Len(s) :
           /\ s[p] = "."
           /\ Len(s) >= 2
           /\ \A k \in 1..Len(s) : k # p => IsDigit(s[k])

ExponentPart(s) ==
    /\ Len(s) >= 2
    /\ s[1] \in {"e", "E"}
    /\ \/ AllDigits(Tail(s))
       \/ s[2] \in {"+", "-"} /\ AllDigits(Tail(Tail(s)))

\* a floating literal: a mantissa with or without an exponent, or the name
\* of an infinity or of a NaN, after a minus sign or not
FloatingLiteral(s) ==
    LET body == Unsigned(s)
    IN  \/ body \in {<<"i", "n", "f">>, <<"n", "a", "n">>,
                     <<"i", "n", "f", "i", "n", "i", "t", "y">>}
        \/ \E k \in 1..Len(body) :
               /\ Mantissa(SubSeq(body, 1, k))
               /\ k = Len(body) \/ ExponentPart(SubSeq(body, k + 1, Len(body)))

\* C13: parse_numeric<T> returns a number only when the whole text is one
\* base-10 integer literal whose value fits T (integral T) or one floating
\* literal (floating T); on any other text it returns ParseError and no
\* other error.
C13_ParseNumeric ==
    ret.op = "parse_numeric" =>
        /\ ret.out.has_value =>
               IF ret.T \in IntegralTargets
               THEN /\ IntegerLiteral(ret.arg.val.s)
                    /\ InRange(LiteralValue(ret.arg.val.s), ret.T)
                    /\ ret.out.value = ValI(LiteralValue(ret.arg.val.s))
               ELSE FloatingLiteral(ret.arg.val.s)
        /\ ~ret.out.has_value => ret.out.error = "ParseError"
        /\ ret.arg.val.s = <<>> => ~ret.out.has_value

C13_Witness ==
    /\ ret.op = "parse_numeric"
    /\ ret.arg.val.s = <<"7", "x">>
    /\ ret.T = "int32_t"
    /\ ret.out = Unexpected("ParseError")

\* the last call failed
Failed ==
    \/ ret.op = "try_get" /\ ~ret.out.has_value
    \/ ret.op \in {"get", "get_to", "get_ref", "coerce", "at"} /\ ret.out.threw

\* C14: when get, get_to, get_ref, try_get, coerce or at fails, the value
\* is what it was before the call, and the variable handed to get_to keeps
\* its value.
C14_NoMutationOnFailure ==
    Failed =>
        /\ root = pre
        /\ ret.op = "get_to" => ret.out.value = ret.arg.val

C14_Witness ==
    /\ ret.op = "get_to"
    /\ ret.out.threw
    /\ ret.T = "int8_t"
    /\ is_integer(Here)
    /\ as_integer(Here) = BigOfInt(300)

\* the outcomes of the throwing accessor op for target T on v
Throwing(op, T, v) ==
    CASE op = "get" -> get(T, v)
      [] op = "get_to" -> get_to(T, v, OutVar)
      [] op = "coerce" -> coerce(T, v)

\* C15: the failure of get<T>(), get_to and coerce<T>() identifies the
\* error try_get<T>() returns: two failures with the same exception type and
\* message come from the same error.
C15_SameReason ==
    (ret.op \in {"get", "get_to", "coerce"} /\ ret.out.threw) =>
        \A v \in AccessValues, T \in CoerceTargets :
            (\E g \in Throwing(ret.op, T, v) :
                 /\ g.threw
                 /\ g.exception = ret.out.exception
                 /\ g.what = ret.out.what) =>
                Errors(T, v) = Errors(ret.T, Here)

\* C16: as_bool .. as_object return the payload when the kind is the one
\* asked for, and otherwise fail with the exception get_ref reports the
\* mismatch with, the value unchanged.
C16_ExactAccessors ==
    ret.op = "as" =>
        /\ root = pre
        /\ IF Here.storage_.index = AltIndex(ret.T)
           THEN ret.out = Returned(Payload(ret.T, Here))
           ELSE /\ ret.out.threw
                /\ ret.out.exception = get_ref(ret.T, Here).exception

\* C17: get_ref<T&>() returns the stored payload when the kind is exactly
\* that of T and throws a type mismatch otherwise, converting nothing; a
\* write through the reference is what the value then holds.
C17_GetRef ==
    /\ ret.op = "get_ref" =>
           /\ ret.out.threw <=> Here.storage_.index # AltIndex(ret.T)
           /\ ret.out.threw => ret.out.exception = "std::runtime_error"
           /\ ~ret.out.threw => ret.out.value = Payload(ret.T, Here)
           /\ root = pre
    /\ ret.op = "write_ref" =>
           /\ get_ref(ret.T, Here) = Returned(ret.arg.val)
           /\ std_get(ret.T, Here) = Returned(ret.arg.val)
           /\ kind(Here) = kind(Before)

C17_Witness ==
    /\ ret.op = "write_ref"
    /\ ret.T = "int64_t"
    /\ as_integer(Before) = BigOfInt(-1)
    /\ as_integer(Here) = BigOfInt(300)

-----------------------------------------------------------------------------
(* Properties of the mutators and of copies and moves *)

SetOps ==
    {"set_null", "set_bool", "set_integer", "set_floating", "set_string",
     "set_array", "set_object"}

\* the storage a set_* call names: the kind and the payload given
Named(op, arg) ==
    CASE op = "set_null" -> Storage(0, NoVal)
      [] op = "set_bool" -> Storage(1, ValB(arg.val.b))
      [] op = "set_integer" -> Storage(2, ValI(arg.val.i))
      [] op = "set_floating" -> Storage(3, ValD(arg.val.d))
      [] op = "set_string" -> Storage(4, ValS(arg.val.s))
      [] op = "set_array" -> Storage(5, ValA(<<>>))
      [] op = "set_object" -> Storage(6, ValO(<<>>))

\* C18: from any kind, set_null .. set_object leave the value in the kind
\* named with the payload given, empty for set_array and set_object also on
\* a non-empty Array or Object, and with nothing of the payload it had.
C18_KindTransition ==
    ret.op \in SetOps =>
        /\ After.storage_ = Named(ret.op, ret.arg)
        /\ After.allocator_ = Before.allocator_
        /\ root = Replace(pre, ret.path, After)

C18_Witness ==
    /\ ret.op = "set_array"
    /\ is_array(Before)
    /\ Len(as_array(Before)) >= 1
    /\ as_array(After) = <<>>

CopyOps == {"copy_construct", "copy_assign", "assign_copy"}

MoveOps == {"move_construct", "move_assign", "assign_move"}

\* C19: after a copy b equals a over the whole subtree and a is as it was;
\* a later mutation of b, or of a value reached through b, leaves a
\* unchanged, and a mutation of a leaves b unchanged.
C19_CopyIndependence ==
    [][/\ ret'.op \in CopyOps => (other' = root /\ root' = root)
       /\ ret'.op \in {"other_index_assign", "other_assign"} => root' = root
       /\ ret'.op \in {"index_assign", "assign"} => other' = other]_vars

C19_Witness ==
    /\ ret.op \in CopyOps
    /\ other = root
    /\ Entries(root) = 2
    /\ \E k \in 1..Len(as_object(root)) : is_object(as_object(root)[k].second)

\* a value as the public operations build it: one of the seven kinds, the
\* payload of that kind and no other, its elements and entries likewise
RECURSIVE Valid(_)
Valid(v) ==
    LET alt == v.storage_.alt
        idx == v.storage_.index
    IN  /\ idx \in 0..6
        /\ alt = (CASE idx = 0 -> NoVal
                    [] idx = 1 -> ValB(alt.b)
                    [] idx = 2 -> ValI(alt.i)
                    [] idx = 3 -> ValD(alt.d)
                    [] idx = 4 -> ValS(alt.s)
                    [] idx = 5 -> ValA(alt.a)
                    [] idx = 6 -> ValO(alt.o))
        /\ \A k \in 1..Len(alt.a) : Valid(alt.a[k])
        /\ \A k \in 1..Len(alt.o) : Valid(alt.o[k].second)

\* C20: after a move c holds exactly the subtree b held, and b is a valid
\* value: in one of the seven kinds, as the public operations build it.
C20_Move ==
    ret.op \in MoveOps =>
        /\ other = pre
        /\ Valid(root)

C20_Witness ==
    /\ ret.op \in MoveOps
    /\ is_object(other)
    /\ Entries(other) = 2
    /\ is_object(root)
    /\ as_object(root) = <<>>

-----------------------------------------------------------------------------
(* Properties of the whole family of operations *)

\* v and every value inside it is in exactly one kind: kind() names the
\* alternative held and exactly one predicate, the one of that kind, is true
RECURSIVE OneKindEach(_)
OneKindEach(v) ==
    LET names == <<"Null", "Boolean", "Integer", "Floating", "String", "Array",
                   "Object">>
        preds == <<is_null(v), is_bool(v), is_integer(v), is_floating(v),
                   is_string(v), is_array(v), is_object(v)>>
    IN  /\ \E n \in 1..7 :
               /\ v.storage_.index = n - 1
               /\ kind(v) = names[n]
               /\ preds[n]
               /\ \A m \in (1..7) \ {n} : ~preds[m]
        /\ \A k \in 1..Len(v.storage_.alt.a) : OneKindEach(v.storage_.alt.a[k])
        /\ \A k \in 1..Len(v.storage_.alt.o) :
               OneKindEach(v.storage_.alt.o[k].second)

\* C21: after any sequence of construction, set_*, assign, operator[],
\* copies and moves, every value (the first, the second, and each one
\* inside them) is in exactly one of the seven kinds, which kind() returns
\* and whose predicate alone is true; a default-constructed value is Null
\* and so is the entry operator[] inserts for a key that was absent.
C21_OneKind ==
    /\ OneKindEach(root)
    /\ OneKindEach(other)
    /\ ret.op = "construct" => (is_null(root) /\ is_null(other))
    /\ (/\ ret.op = "index"
        /\ (~is_object(Before) \/ ~HasKey(as_object(Before), ret.key)))
           => is_null(Here)

C21_Witness ==
    /\ ret.op = "index"
    /\ is_string(Before)
    /\ Len(cur) = 2
    /\ is_null(Here)
    /\ is_object(other)
    /\ \E k \in 1..Len(as_object(other)) :
           is_floating(as_object(other)[k].second)

ReadOps ==
    {"kind", "is", "contains", "find", "at", "get", "get_to", "try_get",
     "coerce"}

\* C22: kind(), the is_* predicates, contains, find, at on a present key,
\* get, get_to, try_get and coerce, whether they succeed or fail, leave the
\* receiver in the kind and with the subtree it had, and the rest of the
\* tree as it was.
C22_ReadsArePure ==
    (ret.op \in ReadOps /\ (ret.op = "at" => ~ret.out.threw)) =>
        /\ kind(After) = kind(Before)
        /\ After = Before
        /\ root = pre

C22_Witness ==
    /\ ret.op = "coerce"
    /\ ret.T = "int32_t"
    /\ ~ret.out.threw
    /\ is_string(Before)
    /\ ret.path # <<>>
    /\ Entries(root) = 2

\* v and every value inside it is bound to the context alloc
RECURSIVE BoundTo(_, _)
BoundTo(v, alloc) ==
    /\ v.allocator_ = alloc
    /\ \A k \in 1..Len(v.storage_.alt.a) : BoundTo(v.storage_.alt.a[k], alloc)
    /\ \A k \in 1..Len(v.storage_.alt.o) :
           BoundTo(v.storage_.alt.o[k].second, alloc)

\* C23: after any sequence of set_*, operator[] and assign on a value and
\* on its descendants, assigning a value built with another context to a
\* descendant included, every value of the tree is bound to the context
\* of the root.
C23_OneContext == BoundTo(root, root.allocator_)

-----------------------------------------------------------------------------
(* Properties of the conversions from Boolean and to bool *)

\* C24: on a value holding the bool b, try_get<bool>() is b, try_get<T>()
\* is 1 or 0 for every integral T and 1.0 or 0.0 for every floating T, and
\* no error is returned.
C24_FromBool ==
    (ret.op = "try_get" /\ is_bool(Here) /\ ret.T \in ArithmeticTargets) =>
        /\ ret.out.has_value
        /\ ret.out.error = "None"
        /\ ret.out.value =
               (IF ret.T = "bool" THEN ValB(as_bool(Here))
                ELSE IF ret.T \in IntegralTargets
                THEN ValI(IF as_bool(Here) THEN BigOne ELSE BigZero)
                ELSE ValD(IF as_bool(Here) THEN Whole(BigOne)
                          ELSE Whole(BigZero)))

C24_Witness ==
    /\ ret.op = "try_get"
    /\ is_bool(Here)
    /\ as_bool(Here)
    /\ ret.T = "double"
    /\ ret.out = Ok(ValD(Whole(BigOne)))

\* C25: an error try_get returns is TypeMismatch, OutOfRange or
\* FractionalLoss, and one parse_numeric returns is ParseError: never
\* KeyNotFound and never None.  get, get_to, get_ref, coerce, at and the
\* exact accessors hand back no error code at all: they return or throw.
C25_ErrorCodes ==
    /\ (ret.op = "try_get" /\ ~ret.out.has_value) =>
           ret.out.error \in {"TypeMismatch", "OutOfRange", "FractionalLoss"}
    /\ (ret.op = "parse_numeric" /\ ~ret.out.has_value) =>
           ret.out.error = "ParseError"
    /\ (ret.op \in {"get", "get_to", "get_ref", "coerce", "at", "as"}
        /\ ret.out.threw) =>
           /\ ret.out.exception \in
                  {"std::runtime_error", "std::out_of_range",
                   "std::bad_variant_access"}
           /\ ret.out.value \in {NoVal, OutVar}

C25_Witness ==
    /\ ret.op = "try_get"
    /\ ret.T = "Object"
    /\ is_floating(Here)
    /\ ret.out = Unexpected("TypeMismatch")

\* C28: try_get<bool>() on a value holding the whole number n succeeds
\* with n != 0 whether n is stored as Integer or as Floating.
C28_BoolOfWhole ==
    (ret.op = "try_get" /\ ret.T = "bool") =>
        /\ is_integer(Here) =>
               ret.out = Ok(ValB(as_integer(Here) # BigZero))
        /\ (/\ is_floating(Here)
            /\ isfinite(as_floating(Here))
            /\ ~DoubleNE(trunc(as_floating(Here)), as_floating(Here))) =>
               ret.out = Ok(ValB(as_floating(Here).h # BigZero))

-----------------------------------------------------------------------------
(* Properties of values assigned from inside themselves, and of references *)
(* kept across insertions                                                  *)

\* C26: v.assign(c) for a value c that the Object or Array v owns leaves v
\* equal to the value c had before the call, and does not read c after
\* the old payload of v was destroyed.
C26_AssignDescendant ==
    ret.op = "assign_child" =>
        /\ After = Children(Before)[ret.out.it]
        /\ ret.out.exception # "undefined behaviour"

\* C27: r.assign(x) through a reference r = v[k1] kept across later calls
\* v[k2] with new keys makes v.at(k1) hold x, and does not write to
\* released storage.
C27_ReferenceStaysUsable ==
    (ret.op = "held_assign" /\ held.path # <<>>) =>
        /\ ~at(root, held.key).threw
        /\ Stores(as_object(root)[at(root, held.key).it].second, ret.arg)
        /\ ret.out.exception # "undefined behaviour"

=============================================================================
